---- MODULE Spec2Model ----
(***************************************************************************)
(* Model of src/src/matrix.c: the four dispatchers (matrix_add, matrix_sub, *)
(* matrix_multiply, matrix_multiply_transposed) and their scalar, NEON and  *)
(* AVX kernels, over one flat float memory addressed in units of one float. *)
(* Assertions are compiled in (the file includes <assert.h> and does not    *)
(* define NDEBUG): a failing assert aborts the call.                        *)
(* Floats hold integers of magnitude below 2^24, on which binary32 addition,*)
(* subtraction and multiplication are exact; fl() rounds what exceeds that. *)
(***************************************************************************)
EXTENDS Integers, Sequences, FiniteSets, TLC

\* ---------------------------------------------------------------- bounds
MaxW == 6          \* widths of add/sub calls: 1..MaxW
MaxH == 3          \* heights of add/sub calls: 1..MaxH
MaxInner == 17     \* inner dimension w1 of multiply calls: 1..MaxInner
MaxOuter == 2      \* h1, w2 (h2) of multiply calls: 1..MaxOuter
MaxN == 9          \* n of the n x n identity products: 1..MaxN
MaxSeed == 2       \* number of value patterns per buffer

\* -------------------------------------------------------- machine types
IntBits == 8       \* width of `int' (two's complement)
SizeBits == 10     \* width of `size_t' (unsigned), wider than int

IntMin == -(2 ^ (IntBits - 1))
IntMax == (2 ^ (IntBits - 1)) - 1
IntRange == IntMin .. IntMax

\* (int)x for a size_t x: reduction modulo 2^IntBits into the signed range
ToInt(x) ==
  LET m == x % (2 ^ IntBits)
  IN  IF m > IntMax THEN m - (2 ^ IntBits) ELSE m

\* size_t arithmetic wraps modulo 2^SizeBits; an int operand converts first
ToSize(x) == x % (2 ^ SizeBits)

\* the outcomes of a signed int expression whose exact value is x: the value
\* itself when representable, otherwise (signed overflow, undefined) any int
IntArith(x) == IF x \in IntRange THEN {x} ELSE IntRange

\* w1 & ~0x7 on a size_t
AndNot7(x) == x - (x % 8)

\* binary32 rounding of an exact integer result (round to nearest, ties to
\* even on a 24 bit significand)
RECURSIVE Ulp(_, _)
Ulp(a, q) == IF a < (2 ^ 24) * q THEN q ELSE Ulp(a, 2 * q)

fl(x) ==
  LET a == IF x < 0 THEN -x ELSE x
  IN  IF a < 2 ^ 24 THEN x
      ELSE LET q == Ulp(a, 1)
               r == a % q
               dn == a - r
               up == IF 2 * r < q THEN dn
                     ELSE IF 2 * r > q THEN dn + q
                     ELSE IF (dn \div q) % 2 = 0 THEN dn ELSE dn + q
           IN  IF x < 0 THEN -up ELSE up

fadd(a, b) == fl(a + b)
fsub(a, b) == fl(a - b)
fmul(a, b) == fl(a * b)

\* ---------------------------------------------------------------- memory
NULL == 0            \* the null pointer; addresses 0..7 hold no buffer
Poison == 99         \* content of memory no input pattern wrote
Garbage == 77        \* value of a load outside the modelled memory
VecAlign == 8        \* floats per 32 byte AVX vector

Load(m, a) == IF a \in DOMAIN m THEN m[a] ELSE Garbage
Store(m, a, v) == IF a \in DOMAIN m THEN [m EXCEPT ![a] = v] ELSE m

\* number of floats from ptr up to the next aligned address, 0 when aligned
align_complement_f32(ptr) == (VecAlign - (ptr % VecAlign)) % VecAlign

Up8(a) == a + align_complement_f32(a)

VARIABLES
  call,     \* the arguments of the call in progress and the build it runs in
  mem0,     \* memory when the first call was made
  mem,      \* memory now
  pc,       \* "call", a kernel's name, "done" or "aborted"
  at,       \* position inside the kernel: "entry", "loop", "outer", "inner"
  ran,      \* the kernels entered during this call
  failed,   \* the assertion that aborted the call, "" when none did
  loads,    \* addresses of m1/m2/res memory read during this call
  stores,   \* addresses written during this call
  nstores,  \* number of float stores during this call
  size,     \* local `size' / `length' of the add and sub kernels
  i, j,     \* loop counters
  col2,     \* the staged column of the vector multiply kernels
  colIdx,   \* indices of col2 read or written
  terms,    \* the k of every product accumulated into the last stored sum
  prev      \* the call before this one (round trip), or NoCall

vars == <<call, mem0, mem, pc, at, ran, failed, loads, stores, nstores,
          size, i, j, col2, colIdx, terms, prev>>

NoCall == [op |-> "none"]
Builds == {"none", "neon", "avx"}

\* ------------------------------------------------------- caller's buffers
\* value patterns in {-4..4}
Pat(s, idx) == ((idx * s + s + (idx \div 3)) % 9) - 4

\* element idx of an n x n identity matrix stored row-major
Ident(n, idx) == IF idx \div n = idx % n THEN 1 ELSE 0

Ext(p, n) == IF p = NULL THEN {} ELSE p .. (p + n - 1)

\* lengths of the three buffers of a call, as the caller allocates them
Len1(c) == c.w1 * c.h1
Len2(c) == IF c.op \in {"add", "sub"} THEN c.w1 * c.h1 ELSE c.w2 * c.h2
LenR(c) == CASE c.op \in {"add", "sub"} -> c.w1 * c.h1
             [] c.op = "mul" -> c.w2 * c.h1
             [] OTHER -> c.h2 * c.h1

M1Ext(c) == Ext(c.m1, Len1(c))
M2Ext(c) == Ext(c.m2, Len2(c))
ResExt(c) == Ext(c.res, LenR(c))

\* pointers of a call under a layout; every layout keeps the buffers inside
\* 8 .. Top-1
Place(c, lay) ==
  LET n1 == Len1(c)
      n2 == Len2(c)
      nr == LenR(c)
      a1 == IF lay = "m1off" THEN 9 ELSE 8
      a2 == Up8(a1 + n1 + 1) + (IF lay = "m2off" THEN 3 ELSE 0)
      ar == Up8(a2 + n2 + 1)
      a4 == Up8(ar + nr + 1)
  IN  CASE lay \in {"plain", "m1off", "m2off"} ->
             [c EXCEPT !.m1 = a1, !.m2 = a2, !.res = ar, !.r2 = NULL]
        [] lay = "nullm1" ->
             [c EXCEPT !.m1 = NULL, !.m2 = a2, !.res = ar, !.r2 = NULL]
        [] lay = "nullm2" ->
             [c EXCEPT !.m1 = a1, !.m2 = NULL, !.res = ar, !.r2 = NULL]
        [] lay = "nullres" ->
             [c EXCEPT !.m1 = a1, !.m2 = a2, !.res = NULL, !.r2 = NULL]
        [] lay = "roundtrip" ->
             [c EXCEPT !.m1 = a1, !.m2 = a2, !.res = ar, !.r2 = a4]
        [] lay = "res=m1" ->
             [c EXCEPT !.m1 = a1, !.m2 = a2, !.res = a1, !.r2 = NULL]
        [] lay = "res=m2" ->
             [c EXCEPT !.m1 = a1, !.m2 = a2, !.res = a2, !.r2 = NULL]
        [] lay = "all" ->
             [c EXCEPT !.m1 = a1, !.m2 = a1, !.res = a1, !.r2 = NULL]
        [] lay = "res=m1+1" ->
             [c EXCEPT !.m1 = a1, !.m2 = a2, !.res = a1 + 1, !.r2 = NULL]
        [] OTHER ->   \* "res=m1-1"
             [c EXCEPT !.m1 = a1, !.m2 = a2, !.res = a1 - 1, !.r2 = NULL]

Top(c) ==
  Up8(Up8(Up8(Up8(9 + Len1(c) + 1) + 3 + Len2(c) + 1) + LenR(c) + 1)
      + LenR(c) + 1) + 8

\* the memory the caller hands over: pattern sa in m1, pattern sb (or the
\* identity matrix when sb = 0) in m2, Poison everywhere else
Fill(c, sa, sb) ==
  [a \in 0 .. (Top(c) - 1) |->
     IF a \in M1Ext(c) THEN Pat(sa, a - c.m1)
     ELSE IF a \in M2Ext(c)
          THEN IF sb = 0 THEN Ident(c.w2, a - c.m2) ELSE Pat(sb + 2, a - c.m2)
          ELSE Poison]

Args(b, o, s, ww1, hh1, ww2, hh2) ==
  [build |-> b, op |-> o, simd |-> s, w1 |-> ww1, h1 |-> hh1,
   w2 |-> ww2, h2 |-> hh2, m1 |-> NULL, m2 |-> NULL, res |-> NULL,
   r2 |-> NULL]

\* the state in which a caller has set up its buffers and is about to call
Start(c, sa, sb) ==
  /\ call = c
  /\ mem0 = Fill(c, sa, sb)
  /\ mem = Fill(c, sa, sb)
  /\ pc = "call"
  /\ at = "entry"
  /\ ran = {}
  /\ failed = ""
  /\ loads = {}
  /\ stores = {}
  /\ nstores = 0
  /\ size = 0
  /\ i = 0
  /\ j = 0
  /\ col2 = <<>>
  /\ colIdx = {}
  /\ terms = <<>>
  /\ prev = NoCall

\* ------------------------------------------------------------- dispatch
Abort(why) ==
  /\ pc' = "aborted"
  /\ failed' = why
  /\ UNCHANGED <<call, mem0, mem, at, ran, loads, stores, nstores, size,
                 i, j, col2, colIdx, terms, prev>>

Enter(kernel) ==
  /\ pc' = kernel
  /\ at' = "entry"
  /\ ran' = ran \cup {kernel}
  /\ UNCHANGED <<call, mem0, mem, failed, loads, stores, nstores, size,
                 i, j, col2, colIdx, terms, prev>>

\* Route with the flag tested against 1 instead of against zero
Route_simd_eq_1(neon, avx, novec) ==
  CASE call.build = "neon" ->
         IF call.simd = 1 THEN Enter(neon) ELSE Enter(novec)
    [] call.build = "avx" ->
         IF call.simd = 1 THEN Enter(avx) ELSE Enter(novec)
    [] OTHER ->
         Enter(novec)

\* if (simd) { #ifdef __ARM_NEON__ neon } else { #elif defined(__AVX__) avx
\* } else { #else } { #endif novec }
Route(neon, avx, novec) ==
  CASE call.build = "neon" ->
         IF call.simd # 0 THEN Enter(neon) ELSE Enter(novec)
    [] call.build = "avx" ->
         IF call.simd # 0 THEN Enter(avx) ELSE Enter(novec)
    [] OTHER ->
         \* an empty then-branch followed by an unconditional block
         Enter(novec)

\* the first assertion of the list that fails, "" when all hold
FirstFailed(checks) ==
  LET bad == {n \in 1 .. Len(checks) : ~checks[n][2]}
  IN  IF bad = {} THEN ""
      ELSE checks[CHOOSE n \in bad : \A o \in bad : n <= o][1]

AddSubChecks ==
  << <<"m1", call.m1 # NULL>>, <<"m2", call.m2 # NULL>>,
     <<"res", call.res # NULL>>, <<"w > 0", call.w1 > 0>>,
     <<"h > 0", call.h1 > 0>> >>

matrix_add ==
  /\ pc = "call"
  /\ call.op = "add"
  /\ IF FirstFailed(AddSubChecks) # ""
     THEN Abort(FirstFailed(AddSubChecks))
     ELSE Route("matrix_add_neon", "matrix_add_avx", "matrix_add_novec")

matrix_sub ==
  /\ pc = "call"
  /\ call.op = "sub"
  /\ IF FirstFailed(AddSubChecks) # ""
     THEN Abort(FirstFailed(AddSubChecks))
     ELSE Route("matrix_sub_neon", "matrix_sub_avx", "matrix_sub_novec")

Return ==
  /\ pc' = "done"
  /\ UNCHANGED <<call, mem0, mem, at, ran, failed, loads, stores, nstores,
                 size, i, j, col2, colIdx, terms, prev>>

\* ------------------------------------------------- add and sub kernels
\* int size = (int)w * (int)h; int i = 0;
ElemEntry ==
  /\ at = "entry"
  /\ \E s \in IntArith(ToInt(call.w1) * ToInt(call.h1)) : size' = s
  /\ i' = 0
  /\ at' = "loop"
  /\ UNCHANGED <<call, mem0, mem, pc, ran, failed, loads, stores, nstores,
                 j, col2, colIdx, terms, prev>>

\* ElemValue adding whatever the sign
ElemValue_always_add(m, c, idx, sgn) ==
  fadd(Load(m, c.m1 + idx), Load(m, c.m2 + idx))

\* res[idx] = m1[idx] + m2[idx] (sgn = 1) or m1[idx] - m2[idx] (sgn = -1)
ElemValue(m, c, idx, sgn) ==
  IF sgn = 1 THEN fadd(Load(m, c.m1 + idx), Load(m, c.m2 + idx))
  ELSE fsub(Load(m, c.m1 + idx), Load(m, c.m2 + idx))

ElemStore(m, c, idx, sgn) == Store(m, c.res + idx, ElemValue(m, c, idx, sgn))

\* one scalar iteration at index i
ScalarIter(sgn) ==
  /\ mem' = ElemStore(mem, call, i, sgn)
  /\ loads' = loads \cup {call.m1 + i, call.m2 + i}
  /\ stores' = stores \cup {call.res + i}
  /\ nstores' = nstores + 1
  /\ i' = i + 1
  /\ UNCHANGED <<call, mem0, pc, at, ran, failed, size, j, col2, colIdx,
                 terms, prev>>

\* one V-wide iteration at index i: both vectors are loaded, then the result
\* vector is stored
VectorIter(V, sgn) ==
  LET lanes == 0 .. (V - 1)
      vec_r == [l \in lanes |-> ElemValue(mem, call, i + l, sgn)]
  IN  /\ mem' = [a \in DOMAIN mem |->
                   IF a - (call.res + i) \in lanes
                   THEN vec_r[a - (call.res + i)] ELSE mem[a]]
      /\ loads' = loads \cup {call.m1 + i + l : l \in lanes}
                        \cup {call.m2 + i + l : l \in lanes}
      /\ stores' = stores \cup {call.res + i + l : l \in lanes}
      /\ nstores' = nstores + V
      /\ i' = i + V
      /\ UNCHANGED <<call, mem0, pc, at, ran, failed, size, j, col2, colIdx,
                     terms, prev>>

\* for (int i = 0; i < size; i++) res[i] = m1[i] +/- m2[i];
ElemNovec(sgn) ==
  \/ ElemEntry
  \/ /\ at = "loop"
     /\ IF i < size THEN ScalarIter(sgn) ELSE Return

\* ElemVec without the scalar tail loop
ElemVec_no_tail(V, sgn) ==
  \/ ElemEntry
  \/ /\ at = "loop"
     /\ \E lim \in IntArith(size - (V - 1)) :
          IF i < lim THEN VectorIter(V, sgn) ELSE Return

\* ElemVec finishing the tail with one more V-wide step over the last V
\* elements, which reads indices the loop has already stored
ElemVec_overlapping_tail(V, sgn) ==
  \/ ElemEntry
  \/ /\ at = "loop"
     /\ \E lim \in IntArith(size - (V - 1)) :
          IF i < lim THEN VectorIter(V, sgn)
          ELSE IF i < size /\ size >= V
          THEN LET lanes == 0 .. (V - 1)
                   b == size - V
                   vec_r == [l \in lanes |-> ElemValue(mem, call, b + l, sgn)]
               IN  /\ mem' = [a \in DOMAIN mem |->
                                IF a - (call.res + b) \in lanes
                                THEN vec_r[a - (call.res + b)] ELSE mem[a]]
                   /\ loads' = loads \cup {call.m1 + b + l : l \in lanes}
                                     \cup {call.m2 + b + l : l \in lanes}
                   /\ stores' = stores \cup {call.res + b + l : l \in lanes}
                   /\ nstores' = nstores + V
                   /\ i' = size
                   /\ UNCHANGED <<call, mem0, pc, at, ran, failed, size, j,
                                  col2, colIdx, terms, prev>>
          ELSE IF i < size THEN ScalarIter(sgn)
          ELSE Return

\* for (; i < length - (V-1); i += V) {...}  for (; i < length; i++) {...}
ElemVec(V, sgn) ==
  \/ ElemEntry
  \/ /\ at = "loop"
     /\ \E lim \in IntArith(size - (V - 1)) :
          IF i < lim THEN VectorIter(V, sgn)
          ELSE IF i < size THEN ScalarIter(sgn)
          ELSE Return

matrix_add_novec == pc = "matrix_add_novec" /\ ElemNovec(1)
matrix_sub_novec == pc = "matrix_sub_novec" /\ ElemNovec(-1)
matrix_add_neon == pc = "matrix_add_neon" /\ ElemVec(4, 1)
matrix_sub_neon == pc = "matrix_sub_neon" /\ ElemVec(4, -1)
matrix_add_avx == pc = "matrix_add_avx" /\ ElemVec(8, 1)
matrix_sub_avx == pc = "matrix_sub_avx" /\ ElemVec(8, -1)

\* the scalar kernel run to completion from memory m
RECURSIVE novec_run(_, _, _, _, _)
novec_run(m, c, idx, n, sgn) ==
  IF idx < n THEN novec_run(ElemStore(m, c, idx, sgn), c, idx + 1, n, sgn)
  ELSE m

\* ------------------------------------------------------ multiply kernels
\* MulChecks without the assertion on the inner dimension
MulChecks_no_dim ==
  << <<"m1", call.m1 # NULL>>,
     <<"m2", call.m2 # NULL>>, <<"res", call.res # NULL>>,
     <<"w1 > 0", call.w1 > 0>>, <<"h1 > 0", call.h1 > 0>>,
     <<"w2 > 0", call.w2 > 0>> >>

MulChecks ==
  << <<"w1 == h2", call.w1 = call.h2>>, <<"m1", call.m1 # NULL>>,
     <<"m2", call.m2 # NULL>>, <<"res", call.res # NULL>>,
     <<"w1 > 0", call.w1 > 0>>, <<"h1 > 0", call.h1 > 0>>,
     <<"w2 > 0", call.w2 > 0>> >>

MulTChecks ==
  << <<"w1 == w2", call.w1 = call.w2>>, <<"m1", call.m1 # NULL>>,
     <<"m2", call.m2 # NULL>>, <<"res", call.res # NULL>>,
     <<"w1 > 0", call.w1 > 0>>, <<"h1 > 0", call.h1 > 0>>,
     <<"h2 > 0", call.h2 > 0>> >>

matrix_multiply ==
  /\ pc = "call"
  /\ call.op = "mul"
  /\ IF FirstFailed(MulChecks) # ""
     THEN Abort(FirstFailed(MulChecks))
     ELSE Route("matrix_multiply_neon", "matrix_multiply_avx",
                "matrix_multiply_novec")

matrix_multiply_transposed ==
  /\ pc = "call"
  /\ call.op = "mult"
  /\ IF FirstFailed(MulTChecks) # ""
     THEN Abort(FirstFailed(MulTChecks))
     ELSE Route("matrix_multiply_transposed_neon",
                "matrix_multiply_transposed_avx",
                "matrix_multiply_transposed_novec")

\* address of m1[jj * w1 + k]
A1(c, jj, k) == c.m1 + ToSize(jj * c.w1 + k)

\* address of the second operand of term k: m2[k * w2 + ii] ("mul"),
\* m2[ii * w1 + k] ("mult"); for "col2" the index k of the staged column
A2(c, kind, ii, k) ==
  CASE kind = "mul" -> c.m2 + ToSize(k * c.w2 + ii)
    [] kind = "mult" -> c.m2 + ToSize(ii * c.w1 + k)
    [] OTHER -> k

Operand2(m, col, c, kind, ii, k) ==
  IF kind = "col2"
  THEN (IF k \in DOMAIN col THEN col[k] ELSE Garbage)
  ELSE Load(m, A2(c, kind, ii, k))

\* what one dot product has done so far: the accumulator (a float, or the
\* lanes of a vector), the addresses loaded, the col2 indices read, the k of
\* the products accumulated
Acc0(s) == [sum |-> s, lds |-> {}, cix |-> {}, ks |-> <<>>]

Touch(acc, c, kind, jj, ii, kset) ==
  [acc EXCEPT
     !.lds = @ \cup {A1(c, jj, k) : k \in kset}
               \cup (IF kind = "col2" THEN {}
                     ELSE {A2(c, kind, ii, k) : k \in kset}),
     !.cix = @ \cup (IF kind = "col2" THEN kset ELSE {})]

\* for (int k = k0; k < (int)w1; k++) sum += m1[j*w1 + k] * second[k];
RECURSIVE ScalarDot(_, _, _, _, _, _, _, _)
ScalarDot(m, col, c, kind, jj, ii, k, acc) ==
  IF k < ToInt(c.w1)
  THEN ScalarDot(m, col, c, kind, jj, ii, k + 1,
         [Touch(acc, c, kind, jj, ii, {k}) EXCEPT
            !.sum = fadd(@, fmul(Load(m, A1(c, jj, k)),
                                 Operand2(m, col, c, kind, ii, k))),
            !.ks = Append(@, k)])
  ELSE acc

\* sum = sum + v1 * v2 on V lanes, v1 loaded at m1 + j*w1 + k, v2 at the
\* second operand + k
Mla(V, m, col, c, kind, jj, ii, k, acc) ==
  LET lanes == 0 .. (V - 1)
  IN  [Touch(acc, c, kind, jj, ii, {k + l : l \in lanes}) EXCEPT
         !.sum = [l \in lanes |->
                    fadd(acc.sum[l],
                         fmul(Load(m, A1(c, jj, k + l)),
                              Operand2(m, col, c, kind, ii, k + l)))],
         !.ks = @ \o [l \in 1 .. V |-> k + l - 1]]

\* for (int k = 0; k < (int)w1 - 7; k += 8): two 4-lane multiply-accumulates
\* (NEON, V = 4) or one 8-lane multiply and add (AVX, V = 8)
RECURSIVE VecDot(_, _, _, _, _, _, _, _, _, _)
VecDot(V, m, col, c, kind, jj, ii, k, lim, acc) ==
  IF k < lim
  THEN VecDot(V, m, col, c, kind, jj, ii, k + 8, lim,
         IF V = 4
         THEN Mla(4, m, col, c, kind, jj, ii, k + 4,
                  Mla(4, m, col, c, kind, jj, ii, k, acc))
         ELSE Mla(8, m, col, c, kind, jj, ii, k, acc))
  ELSE acc

\* neon_reduce adding the low half only
neon_reduce_low_only(sum) == fadd(sum[0], sum[1])

\* vpadd_f32(vget_high_f32(sum), vget_low_f32(sum)), then lane 0 + lane 1
neon_reduce(sum) ==
  LET sum2 == <<fadd(sum[2], sum[3]), fadd(sum[0], sum[1])>>
  IN  fadd(sum2[1], sum2[2])

\* _mm256_hadd_ps: pairwise sums inside each 128 bit half
mm256_hadd_ps(a, b) ==
  [l \in 0 .. 7 |->
     CASE l = 0 -> fadd(a[0], a[1])
       [] l = 1 -> fadd(a[2], a[3])
       [] l = 2 -> fadd(b[0], b[1])
       [] l = 3 -> fadd(b[2], b[3])
       [] l = 4 -> fadd(a[4], a[5])
       [] l = 5 -> fadd(a[6], a[7])
       [] l = 6 -> fadd(b[4], b[5])
       [] OTHER -> fadd(b[6], b[7])]

\* avx_reduce adding element 1 instead of element 4: the upper 128 bit half
\* of the accumulator is lost
avx_reduce_wrong_lane(sum) ==
  LET s1 == mm256_hadd_ps(sum, sum)
      s2 == mm256_hadd_ps(s1, s1)
  IN  fadd(s2[0], s2[1])

\* sum = hadd(sum, sum) twice, then element 0 + element 4
avx_reduce(sum) ==
  LET s1 == mm256_hadd_ps(sum, sum)
      s2 == mm256_hadd_ps(s1, s1)
  IN  fadd(s2[0], s2[4])

\* one result element: float sum = 0; scalar loop over every k
NovecElement(kind, jj, ii) ==
  ScalarDot(mem, col2, call, kind, jj, ii, 0, Acc0(0))

\* one result element of a vector kernel: 8-wide loop below lim, horizontal
\* reduction, scalar loop from w1 & ~0x7
VecElement(V, kind, jj, ii, lim) ==
  LET v == VecDot(V, mem, col2, call, kind, jj, ii, 0, lim,
                  Acc0([l \in 0 .. (V - 1) |-> 0]))
      r == IF V = 4 THEN neon_reduce(v.sum) ELSE avx_reduce(v.sum)
  IN  ScalarDot(mem, col2, call, kind, jj, ii, ToInt(AndNot7(call.w1)),
                [v EXCEPT !.sum = r])

\* res[idx] = the finished sum e
PutElement(idx, e) ==
  /\ mem' = Store(mem, call.res + idx, e.sum)
  /\ loads' = loads \cup e.lds
  /\ colIdx' = colIdx \cup e.cix
  /\ stores' = stores \cup {call.res + idx}
  /\ nstores' = nstores + 1
  /\ terms' = e.ks

MulEntry ==
  /\ at = "entry"
  /\ i' = 0
  /\ j' = 0
  /\ at' = "outer"
  /\ UNCHANGED <<call, mem0, mem, pc, ran, failed, loads, stores, nstores,
                 size, col2, colIdx, terms, prev>>

\* float col2[w1]: the column is not initialised
VecMulEntry ==
  /\ at = "entry"
  /\ i' = 0
  /\ j' = 0
  /\ at' = "outer"
  /\ col2' = [k \in 0 .. (call.w1 - 1) |-> Garbage]
  /\ UNCHANGED <<call, mem0, mem, pc, ran, failed, loads, stores, nstores,
                 size, colIdx, terms, prev>>

\* Stage with k <= (int)w1 as the loop condition
Stage_off_by_one ==
  LET ks == {k \in 0 .. IntMax : k <= ToInt(call.w1)}
  IN  /\ col2' = [k \in DOMAIN col2 |->
                    IF k \in ks THEN Load(mem, A2(call, "mul", i, k))
                    ELSE col2[k]]
      /\ colIdx' = colIdx \cup ks
      /\ loads' = loads \cup {A2(call, "mul", i, k) : k \in ks}

\* for (k = 0; k < (int)w1; k++) col2[k] = m2[k * w2 + i];
Stage ==
  LET ks == {k \in 0 .. IntMax : k < ToInt(call.w1)}
  IN  /\ col2' = [k \in DOMAIN col2 |->
                    IF k \in ks THEN Load(mem, A2(call, "mul", i, k))
                    ELSE col2[k]]
      /\ colIdx' = colIdx \cup ks
      /\ loads' = loads \cup {A2(call, "mul", i, k) : k \in ks}

\* for (i < w2) { for (j < h1) { sum over k; res[j * w2 + i] = sum; } }
matrix_multiply_novec ==
  /\ pc = "matrix_multiply_novec"
  /\ \/ MulEntry
     \/ /\ at = "outer"
        /\ IF i < ToInt(call.w2)
           THEN /\ j' = 0
                /\ at' = "inner"
                /\ UNCHANGED <<call, mem0, mem, pc, ran, failed, loads,
                               stores, nstores, size, i, col2, colIdx,
                               terms, prev>>
           ELSE Return
     \/ /\ at = "inner"
        /\ IF j < ToInt(call.h1)
           THEN /\ PutElement(ToSize(j * call.w2 + i),
                              NovecElement("mul", j, i))
                /\ j' = j + 1
                /\ UNCHANGED <<call, mem0, pc, at, ran, failed, size, i,
                               col2, prev>>
           ELSE /\ i' = i + 1
                /\ at' = "outer"
                /\ UNCHANGED <<call, mem0, mem, pc, ran, failed, loads,
                               stores, nstores, size, j, col2, colIdx,
                               terms, prev>>

\* for (j < h1) { for (i < h2) { sum over k; res[j * h2 + i] = sum; } }
matrix_multiply_transposed_novec ==
  /\ pc = "matrix_multiply_transposed_novec"
  /\ \/ MulEntry
     \/ /\ at = "outer"
        /\ IF j < ToInt(call.h1)
           THEN /\ i' = 0
                /\ at' = "inner"
                /\ UNCHANGED <<call, mem0, mem, pc, ran, failed, loads,
                               stores, nstores, size, j, col2, colIdx,
                               terms, prev>>
           ELSE Return
     \/ /\ at = "inner"
        /\ IF i < ToInt(call.h2)
           THEN /\ PutElement(ToSize(j * call.h2 + i),
                              NovecElement("mult", j, i))
                /\ i' = i + 1
                /\ UNCHANGED <<call, mem0, pc, at, ran, failed, size, j,
                               col2, prev>>
           ELSE /\ j' = j + 1
                /\ at' = "outer"
                /\ UNCHANGED <<call, mem0, mem, pc, ran, failed, loads,
                               stores, nstores, size, i, col2, colIdx,
                               terms, prev>>

\* the NEON and AVX multiply: stage column i, then one dot product per row j
VecMultiply(V) ==
  \/ /\ at = "outer"
     /\ IF i < ToInt(call.w2)
        THEN /\ Stage
             /\ j' = 0
             /\ at' = "inner"
             /\ UNCHANGED <<call, mem0, mem, pc, ran, failed, stores,
                            nstores, size, i, terms, prev>>
        ELSE Return
  \/ /\ at = "inner"
     /\ IF j < ToInt(call.h1)
        THEN /\ \E lim \in IntArith(ToInt(call.w1) - 7) :
                  PutElement(ToSize(j * call.w2 + i),
                             VecElement(V, "col2", j, i, lim))
             /\ j' = j + 1
             /\ UNCHANGED <<call, mem0, pc, at, ran, failed, size, i,
                            col2, prev>>
        ELSE /\ i' = i + 1
             /\ at' = "outer"
             /\ UNCHANGED <<call, mem0, mem, pc, ran, failed, loads,
                            stores, nstores, size, j, col2, colIdx,
                            terms, prev>>

\* the NEON and AVX transposed multiply: one dot product of two rows per
\* pair (j, i)
VecMultiplyTransposed(V) ==
  \/ /\ at = "outer"
     /\ IF j < ToInt(call.h1)
        THEN /\ i' = 0
             /\ at' = "inner"
             /\ UNCHANGED <<call, mem0, mem, pc, ran, failed, loads,
                            stores, nstores, size, j, col2, colIdx,
                            terms, prev>>
        ELSE Return
  \/ /\ at = "inner"
     /\ IF i < ToInt(call.h2)
        THEN /\ \E lim \in IntArith(ToInt(call.w1) - 7) :
                  PutElement(ToSize(j * call.h2 + i),
                             VecElement(V, "mult", j, i, lim))
             /\ i' = i + 1
             /\ UNCHANGED <<call, mem0, pc, at, ran, failed, size, j,
                            col2, prev>>
        ELSE /\ j' = j + 1
             /\ at' = "outer"
             /\ UNCHANGED <<call, mem0, mem, pc, ran, failed, loads,
                            stores, nstores, size, i, col2, colIdx,
                            terms, prev>>

matrix_multiply_neon ==
  /\ pc = "matrix_multiply_neon"
  /\ (VecMulEntry \/ VecMultiply(4))

matrix_multiply_transposed_neon ==
  /\ pc = "matrix_multiply_transposed_neon"
  /\ (MulEntry \/ VecMultiplyTransposed(4))

\* assert(align_complement_f32(m1) == 0); then as the NEON kernel, 8 lanes
matrix_multiply_avx ==
  /\ pc = "matrix_multiply_avx"
  /\ \/ /\ at = "entry"
        /\ IF align_complement_f32(call.m1) # 0
           THEN Abort("align m1")
           ELSE VecMulEntry
     \/ VecMultiply(8)

\* matrix_multiply_transposed_avx without its two alignment assertions
matrix_multiply_transposed_avx_unchecked ==
  /\ pc = "matrix_multiply_transposed_avx"
  /\ (MulEntry \/ VecMultiplyTransposed(8))

\* assert(align_complement_f32(m1) == 0); assert(align_complement_f32(m2) == 0);
matrix_multiply_transposed_avx ==
  /\ pc = "matrix_multiply_transposed_avx"
  /\ \/ /\ at = "entry"
        /\ IF align_complement_f32(call.m1) # 0
           THEN Abort("align m1")
           ELSE IF align_complement_f32(call.m2) # 0
           THEN Abort("align m2")
           ELSE MulEntry
     \/ VecMultiplyTransposed(8)

\* --------------------------------------------------------------- callers
\* the caller of the round-trip law: after R = add(A, B) it calls
\* sub(R, B) into a second result buffer
RoundTrip ==
  /\ pc = "done"
  /\ call.op = "add"
  /\ call.r2 # NULL
  /\ prev = NoCall
  /\ prev' = [op |-> "add", c |-> call, m0 |-> mem0]
  /\ call' = [call EXCEPT !.op = "sub", !.m1 = call.res, !.res = call.r2,
                          !.r2 = NULL]
  /\ mem0' = mem
  /\ pc' = "call"
  /\ at' = "entry"
  /\ ran' = {}
  /\ failed' = ""
  /\ loads' = {}
  /\ stores' = {}
  /\ nstores' = 0
  /\ UNCHANGED <<mem, size, i, j, col2, colIdx, terms>>

SimdVals == {0, 1, 2}
Seeds == 1 .. MaxSeed
ElemOps == {"add", "sub"}
MulOps == {"mul", "mult"}

\* calls of every operation, valid and invalid: null pointers, zero
\* dimensions, mismatched inner dimensions, misaligned operands
MainLayouts == {"plain", "m1off", "m2off", "nullm1", "nullm2", "nullres"}

MainCalls ==
  {Place(Args(b, o, s, w, h, 0, 0), lay) :
     b \in Builds, o \in ElemOps, s \in SimdVals, w \in 0 .. MaxW,
     h \in 0 .. MaxH, lay \in MainLayouts}
  \cup
  {Place(Args(b, "mul", s, w, hh1, ww2, w + d), lay) :
     b \in Builds, s \in SimdVals, w \in 0 .. (MaxInner - 7),
     hh1 \in 0 .. MaxOuter, ww2 \in 0 .. MaxOuter, d \in {0, 1},
     lay \in MainLayouts}
  \cup
  {Place(Args(b, "mult", s, w, hh1, w + d, hh2), lay) :
     b \in Builds, s \in SimdVals, w \in 0 .. (MaxInner - 7),
     hh1 \in 0 .. MaxOuter, hh2 \in 0 .. MaxOuter, d \in {0, 1},
     lay \in MainLayouts}

Init == \E c \in MainCalls : Start(c, 1, 1)

Kernels ==
  \/ matrix_add_novec
  \/ matrix_sub_novec
  \/ matrix_add_neon
  \/ matrix_sub_neon
  \/ matrix_add_avx
  \/ matrix_sub_avx
  \/ matrix_multiply_novec
  \/ matrix_multiply_transposed_novec
  \/ matrix_multiply_neon
  \/ matrix_multiply_transposed_neon
  \/ matrix_multiply_avx
  \/ matrix_multiply_transposed_avx

Next ==
  \/ matrix_add
  \/ matrix_sub
  \/ matrix_multiply
  \/ matrix_multiply_transposed
  \/ Kernels

Spec == Init /\ [][Next]_vars

\* add and sub calls on valid buffers: disjoint (followed by the round
\* trip), exactly aliased, and partially overlapping
ElemLayouts ==
  {"roundtrip", "res=m1", "res=m2", "all", "res=m1+1", "res=m1-1"}

ElemCalls ==
  {Place(Args(b, o, s, w, h, 0, 0), lay) :
     b \in Builds, o \in ElemOps, s \in {0, 1}, w \in 1 .. MaxW,
     h \in 1 .. MaxH, lay \in ElemLayouts}

InitElem == \E c \in ElemCalls : \E sa \in Seeds : Start(c, sa, sa)

NextElem ==
  \/ matrix_add
  \/ matrix_sub
  \/ matrix_add_novec
  \/ matrix_sub_novec
  \/ matrix_add_neon
  \/ matrix_sub_neon
  \/ matrix_add_avx
  \/ matrix_sub_avx
  \/ RoundTrip

SpecElem == InitElem /\ [][NextElem]_vars

\* multiply calls on valid, disjoint, aligned buffers: general shapes with
\* patterned operands, and n x n products with the identity matrix
MulCalls ==
  {Place(Args(b, "mul", s, w, hh1, ww2, w), "plain") :
     b \in Builds, s \in {0, 1}, w \in 1 .. MaxInner,
     hh1 \in 1 .. MaxOuter, ww2 \in 1 .. MaxOuter}
  \cup
  {Place(Args(b, "mult", s, w, hh1, w, hh2), "plain") :
     b \in Builds, s \in {0, 1}, w \in 1 .. MaxInner,
     hh1 \in 1 .. MaxOuter, hh2 \in 1 .. MaxOuter}

IdentityCalls ==
  {Place(Args(b, o, s, n, n, n, n), "plain") :
     b \in Builds, o \in MulOps, s \in {0, 1}, n \in 1 .. MaxN}

InitMul ==
  \/ \E c \in MulCalls : \E sa \in Seeds : Start(c, sa, sa)
  \/ \E c \in IdentityCalls : \E sa \in Seeds : Start(c, sa, 0)

NextMul ==
  \/ matrix_multiply
  \/ matrix_multiply_transposed
  \/ matrix_multiply_novec
  \/ matrix_multiply_transposed_novec
  \/ matrix_multiply_neon
  \/ matrix_multiply_transposed_neon
  \/ matrix_multiply_avx
  \/ matrix_multiply_transposed_avx

SpecMul == InitMul /\ [][NextMul]_vars

\* add and sub calls whose dimensions do not fit `int' or whose element
\* count overflows it, next to one that fits
OverflowShapes ==
  { <<2 ^ IntBits, 1>>, <<(2 ^ IntBits) + 3, 1>>, <<2 ^ (IntBits - 1), 1>>,
    <<2 ^ (IntBits \div 2), 2 ^ ((IntBits \div 2) - 1)>>, <<3, 2>> }

OverflowCalls ==
  {Place(Args(b, o, 1, wh[1], wh[2], 0, 0), "plain") :
     b \in Builds, o \in ElemOps, wh \in OverflowShapes}

InitOverflow == \E c \in OverflowCalls : Start(c, 1, 1)

NextOverflow ==
  \/ matrix_add
  \/ matrix_sub
  \/ matrix_add_novec
  \/ matrix_sub_novec
  \/ matrix_add_neon
  \/ matrix_sub_neon
  \/ matrix_add_avx
  \/ matrix_sub_avx

SpecOverflow == InitOverflow /\ [][NextOverflow]_vars

\* ================================================================ claims
\* the documented preconditions of a call, read off its arguments
Precond(c) ==
  /\ c.m1 # NULL
  /\ c.m2 # NULL
  /\ c.res # NULL
  /\ c.w1 > 0
  /\ c.h1 > 0
  /\ c.op = "mul" => (c.w1 = c.h2 /\ c.w2 > 0)
  /\ c.op = "mult" => (c.w1 = c.w2 /\ c.h2 > 0)

Backend(c) ==
  IF c.simd # 0 /\ c.build # "none" THEN c.build ELSE "novec"

KernelName(o, b) ==
  CASE o = "add" /\ b = "novec" -> "matrix_add_novec"
    [] o = "add" /\ b = "neon" -> "matrix_add_neon"
    [] o = "add" /\ b = "avx" -> "matrix_add_avx"
    [] o = "sub" /\ b = "novec" -> "matrix_sub_novec"
    [] o = "sub" /\ b = "neon" -> "matrix_sub_neon"
    [] o = "sub" /\ b = "avx" -> "matrix_sub_avx"
    [] o = "mul" /\ b = "novec" -> "matrix_multiply_novec"
    [] o = "mul" /\ b = "neon" -> "matrix_multiply_neon"
    [] o = "mul" /\ b = "avx" -> "matrix_multiply_avx"
    [] o = "mult" /\ b = "novec" -> "matrix_multiply_transposed_novec"
    [] o = "mult" /\ b = "neon" -> "matrix_multiply_transposed_neon"
    [] OTHER -> "matrix_multiply_transposed_avx"

Misaligned(c) ==
  \/ align_complement_f32(c.m1) # 0
  \/ c.op = "mult" /\ align_complement_f32(c.m2) # 0

Sgn(c) == IF c.op = "add" THEN 1 ELSE -1

Disjoint(c) ==
  /\ ResExt(c) \cap (M1Ext(c) \cup M2Ext(c)) = {}
  /\ M1Ext(c) \cap M2Ext(c) = {}

\* C1: once a call has passed the precondition checks, the set of kernels
\* entered is exactly the one kernel of the expected backend: the vector
\* kernel iff simd is non-zero and the build has a vector instruction set,
\* the scalar kernel otherwise; control is in that kernel or has left it.
C1_ExactlyOneBackend ==
  (pc # "call" /\ Precond(call)) =>
     /\ ran = {KernelName(call.op, Backend(call))}
     /\ pc \in {KernelName(call.op, Backend(call)), "done", "aborted"}

C1_Witness ==
  /\ pc = "done"
  /\ call.simd = 2
  /\ call.build = "none"
  /\ call.op = "mul"
  /\ ran = {"matrix_multiply_novec"}
  /\ nstores > 0

\* C2: a multiply with w1 # h2, or a transposed multiply with w1 # w2, never
\* gets past the dispatcher: no kernel is entered, nothing is loaded or
\* stored, and the call ends aborted by the dimension assertion, whatever
\* simd, the pointers and the other dimensions are.
C2_MismatchRejectedFirst ==
  ( \/ call.op = "mul" /\ call.w1 # call.h2
    \/ call.op = "mult" /\ call.w1 # call.w2 ) =>
     /\ pc \in {"call", "aborted"}
     /\ ran = {}
     /\ loads = {}
     /\ stores = {}
     /\ mem = mem0
     /\ pc = "aborted" => failed \in {"w1 == h2", "w1 == w2"}

C2_Witness ==
  /\ pc = "aborted"
  /\ call.op = "mul"
  /\ call.w1 # call.h2
  /\ call.m1 = NULL
  /\ call.simd # 0
  /\ failed = "w1 == h2"

\* the mathematical dot product of term 0 .. k-1 over the initial memory
RECURSIVE RefDot(_, _, _, _, _)
RefDot(c, kind, jj, ii, k) ==
  IF k = 0 THEN 0
  ELSE RefDot(c, kind, jj, ii, k - 1)
       + mem0[c.m1 + jj * c.w1 + (k - 1)]
         * (IF kind = "mul" THEN mem0[c.m2 + (k - 1) * c.w2 + ii]
            ELSE mem0[c.m2 + ii * c.w1 + (k - 1)])

ResultWidth(c) == IF c.op = "mul" THEN c.w2 ELSE c.h2

\* C3: in every backend a finished multiply holds, at every res[j*w2 + i],
\* the sum over k < w1 of m1[j*w1+k] * m2[k*w2+i], a finished transposed
\* multiply holds at res[j*h2 + i] the sum of m1[j*w1+k] * m2[i*w1+k]; and
\* every stored sum has accumulated each k in [0, w1) exactly once.
C3_MultiplyIsDotProduct ==
  /\ (pc = "done" /\ call.op \in MulOps) =>
       \A jj \in 0 .. (call.h1 - 1) : \A ii \in 0 .. (ResultWidth(call) - 1) :
          mem[call.res + jj * ResultWidth(call) + ii]
            = RefDot(call, call.op, jj, ii, call.w1)
  /\ (call.op \in MulOps /\ nstores > 0) =>
       /\ Len(terms) = call.w1
       /\ {terms[n] : n \in 1 .. Len(terms)} = 0 .. (call.w1 - 1)

C3_Witness ==
  /\ pc = "done"
  /\ call.op = "mul"
  /\ call.build = "avx"
  /\ call.simd # 0
  /\ call.w1 > 16
  /\ call.w1 % 8 # 0
  /\ call.h1 > 1
  /\ nstores = call.h1 * call.w2

\* C4: for a finished vector add or sub on disjoint buffers whose element
\* count is not a multiple of the vector width, res equals at every index
\* what the scalar kernel leaves there, and every index of [0, w*h) was
\* stored exactly once.
C4_VectorTailEqualsScalar ==
  ( /\ pc = "done"
    /\ call.op \in ElemOps
    /\ Disjoint(call)
    /\ Backend(call) # "novec"
    /\ (call.w1 * call.h1) % (IF call.build = "neon" THEN 4 ELSE 8) # 0 ) =>
     LET n == call.w1 * call.h1
         ref == novec_run(mem0, call, 0, n, Sgn(call))
     IN  /\ \A idx \in 0 .. (n - 1) : mem[call.res + idx] = ref[call.res + idx]
         /\ stores = ResExt(call)
         /\ nstores = n

C4_Witness ==
  /\ pc = "done"
  /\ call.op = "sub"
  /\ call.build = "neon"
  /\ call.simd # 0
  /\ call.w1 = 5
  /\ call.h1 = 3
  /\ Disjoint(call)
  /\ nstores = 15

\* C5: during a call that satisfies its preconditions every store is inside
\* res[0 .. rw*rh), every load inside the w*h extent of m1 or of m2, every
\* access to the staged column inside [0, w1), and memory outside res keeps
\* its initial content; when the call returns every index of res has been
\* stored, rw*rh stores in all.
C5_FrameAndExtents ==
  Precond(call) =>
     /\ stores \subseteq ResExt(call)
     /\ loads \subseteq (M1Ext(call) \cup M2Ext(call))
     /\ colIdx \subseteq 0 .. (call.w1 - 1)
     /\ DOMAIN mem = DOMAIN mem0
     /\ \A a \in DOMAIN mem : a \notin ResExt(call) => mem[a] = mem0[a]
     /\ pc = "done" => (stores = ResExt(call) /\ nstores = LenR(call))

C5_Witness ==
  /\ pc = "done"
  /\ call.op = "mul"
  /\ call.build = "avx"
  /\ call.simd # 0
  /\ call.w1 > 8
  /\ call.w2 > 1
  /\ colIdx = 0 .. (call.w1 - 1)
  /\ stores = ResExt(call)

\* C6 as stated: after R = add(A, B) and R2 = sub(R, B), R equals R2 at
\* every index.
C6_AddEqualsSubOfAdd ==
  (pc = "done" /\ prev # NoCall) =>
     \A idx \in 0 .. (call.w1 * call.h1 - 1) :
        mem[prev.c.res + idx] = mem[call.res + idx]

\* C6 amended: after R = add(A, B) and R2 = sub(R, B), in every backend, R2
\* equals A at every index (and R holds A + B).
C6_SubOfAddIsFirstOperand ==
  (pc = "done" /\ prev # NoCall) =>
     \A idx \in 0 .. (call.w1 * call.h1 - 1) :
        /\ mem[call.res + idx] = prev.m0[prev.c.m1 + idx]
        /\ mem[prev.c.res + idx]
             = prev.m0[prev.c.m1 + idx] + prev.m0[prev.c.m2 + idx]

C6_Witness ==
  /\ pc = "done"
  /\ prev # NoCall
  /\ call.build = "avx"
  /\ call.simd # 0
  /\ call.w1 * call.h1 > 8
  /\ \E idx \in 0 .. (call.w1 * call.h1 - 1) : mem[call.m2 + idx] # 0
  /\ nstores = call.w1 * call.h1

IsIdentityCall(c) ==
  /\ c.op \in MulOps
  /\ c.w1 = c.h1
  /\ c.w2 = c.h2
  /\ c.w1 = c.w2
  /\ \A idx \in 0 .. (c.w2 * c.h2 - 1) : mem0[c.m2 + idx] = Ident(c.w2, idx)

\* C7: a finished multiply or transposed multiply of an n x n matrix A by
\* the n x n identity leaves A in res, in every backend.
C7_MultiplyIdentity ==
  (pc = "done" /\ IsIdentityCall(call)) =>
     \A idx \in 0 .. (call.w1 * call.h1 - 1) :
        mem[call.res + idx] = mem0[call.m1 + idx]

C7_Witness ==
  /\ pc = "done"
  /\ IsIdentityCall(call)
  /\ call.op = "mult"
  /\ call.build = "neon"
  /\ call.simd # 0
  /\ call.w1 > 8
  /\ nstores = call.w1 * call.h1

OnAvxMultiplyPath(c) ==
  /\ Precond(c)
  /\ c.op \in MulOps
  /\ Backend(c) = "avx"

\* C8 as stated: on the AVX multiply path a misaligned operand is detected
\* by no check: the call is never aborted and the kernel goes on to load.
C8_MisalignmentIsSilent ==
  (OnAvxMultiplyPath(call) /\ Misaligned(call)) => pc # "aborted"

\* C8 amended: on the AVX multiply path a misaligned m1 (or, transposed, m2)
\* is a checked hazard as well: the kernel is entered, its alignment
\* assertion aborts the call, and nothing is loaded or stored; a shape
\* mismatch is caught earlier, by the dispatcher, with no kernel entered.
C8_MisalignmentIsAsserted ==
  /\ (OnAvxMultiplyPath(call) /\ Misaligned(call)) =>
       /\ loads = {}
       /\ stores = {}
       /\ pc \in {"call", KernelName(call.op, "avx"), "aborted"}
       /\ pc = KernelName(call.op, "avx") => at = "entry"
       /\ pc = "aborted" =>
            (failed \in {"align m1", "align m2"}
             /\ ran = {KernelName(call.op, "avx")})
  /\ (pc = "aborted" /\ failed \in {"w1 == h2", "w1 == w2"}) => ran = {}

C8_Witness ==
  /\ pc = "aborted"
  /\ call.op = "mult"
  /\ failed = "align m2"
  /\ align_complement_f32(call.m1) = 0
  /\ ran = {"matrix_multiply_transposed_avx"}

ExactAlias(c) ==
  /\ c.res \in {c.m1, c.m2}
  /\ c.m1 = c.m2 \/ M1Ext(c) \cap M2Ext(c) = {}

\* C9: a finished add or sub whose res is the same buffer as m1, as m2 or
\* as both holds at every index the sum (difference) of the initial m1 and
\* m2 values, which is what the call writes into a disjoint res.
C9_ExactAliasingTolerated ==
  (pc = "done" /\ call.op \in ElemOps /\ ExactAlias(call)) =>
     \A idx \in 0 .. (call.w1 * call.h1 - 1) :
        mem[call.res + idx] = ElemValue(mem0, call, idx, Sgn(call))

C9_Witness ==
  /\ pc = "done"
  /\ call.op = "add"
  /\ call.res = call.m1
  /\ call.m1 = call.m2
  /\ call.build = "avx"
  /\ call.simd # 0
  /\ call.w1 * call.h1 > 8
  /\ (call.w1 * call.h1) % 8 # 0
  /\ nstores = call.w1 * call.h1

\* the same equality for a res that overlaps m1 shifted by one element
C9_PartialOverlapAlsoEqual ==
  (pc = "done" /\ call.op \in ElemOps /\ call.res = call.m1 + 1) =>
     \A idx \in 0 .. (call.w1 * call.h1 - 1) :
        mem[call.res + idx] = ElemValue(mem0, call, idx, Sgn(call))

\* C10: for all positive size_t w and h, the element count the add and sub
\* kernels iterate over equals w*h, and a finished call has written
\* m1[idx] +/- m2[idx] at every idx in [0, w*h).
C10_CountIsProduct ==
  /\ (pc \in {KernelName(o, b) : o \in ElemOps, b \in {"novec", "neon", "avx"}}
      /\ at = "loop") => size = call.w1 * call.h1
  /\ (pc = "done" /\ call.op \in ElemOps) =>
       \A idx \in 0 .. (call.w1 * call.h1 - 1) :
          mem[call.res + idx] = ElemValue(mem0, call, idx, Sgn(call))

====
